---- MODULE Spec2Model ----
(***************************************************************************)
(* A model of gluonts.distribution.multivariate_independent_gaussian and   *)
(* gluonts.distribution.lowrank_gp.                                        *)
(*                                                                         *)
(* Tensors are records [kind, shape, data]: shape is the tuple of axis     *)
(* lengths and data the row-major list of the entries.  Real numbers are   *)
(* fixed-point integers in units of 1/Scale.  Python's None, raised        *)
(* exceptions and returned objects are records told apart by "kind".       *)
(***************************************************************************)
EXTENDS Integers, Sequences, FiniteSets, TLC

VARIABLES dist, ctor, out, proj, ret

vars == <<dist, ctor, out, proj, ret>>

(* ---------------------------------------------------------------- bounds *)

\* Most axes a parameter tensor has (batch axes plus the event axis).
MaxAxes == 2

\* Largest num_samples passed to sample / sample_rep.
MaxSamples == 2

\* Longest event axis of the tensors whose entries vary (cdf).
MaxEventDim == 2

(* ------------------------------------------------------- python values *)

None == [kind |-> "none"]

PyInt(n) == [kind |-> "int", v |-> n]

Raised(e) == [kind |-> "error", error |-> e]

IsError(v) == v.kind = "error"

\* What a method call leaves behind: the instance after it and the value
\* it returned (or the exception it raised).
Returns(self, val) == [self |-> self, val |-> val]

(* ------------------------------------------------------------- numbers *)

\* One unit is 1/Scale.
Scale == 10 ^ 3

Abs(a) == IF a < 0 THEN -a ELSE a

Max(a, b) == IF a >= b THEN a ELSE b

\* a / b rounded to the nearest unit (b > 0).
RDiv(a, b) == (2 * a + b) \div (2 * b)

\* Fixed-point product and quotient.
FMul(a, b) == RDiv(a * b, Scale)

FDiv(a, b) == IF b > 0 THEN RDiv(a * Scale, b) ELSE -RDiv(a * Scale, -b)

(* ------------------------------------------------------------- tensors *)

RECURSIVE Prod(_)
Prod(s) == IF s = <<>> THEN 1 ELSE Head(s) * Prod(Tail(s))

Tensor(shape, data) == [kind |-> "tensor", shape |-> shape, data |-> data]

Full(shape, v) == Tensor(shape, [i \in 1..Prod(shape) |-> v])

\* The tuples of length n over S.
Tuples(n, S) == [1..n -> S]

\* shape[:-1]
AllButLast(s) == SubSeq(s, 1, Len(s) - 1)

\* shape[-1]
Last(s) == s[Len(s)]

\* shape padded on the left with axes of length 1 up to n axes.
PadLeft(s, n) == [a \in 1..n |-> IF a <= n - Len(s) THEN 1 ELSE s[a - (n - Len(s))]]

BroadcastOk(s1, s2) ==
    LET n == Max(Len(s1), Len(s2))
        p1 == PadLeft(s1, n)
        p2 == PadLeft(s2, n)
    IN  \A a \in 1..n : p1[a] = p2[a] \/ p1[a] = 1 \/ p2[a] = 1

BroadcastShape(s1, s2) ==
    LET n == Max(Len(s1), Len(s2))
        p1 == PadLeft(s1, n)
        p2 == PadLeft(s2, n)
    IN  [a \in 1..n |-> Max(p1[a], p2[a])]

\* The 0-based index along axis a of the k-th (0-based) entry of a tensor
\* of the given shape, row-major.
AxisIndex(shape, k, a) ==
    (k \div Prod(SubSeq(shape, a + 1, Len(shape)))) % shape[a]

RECURSIVE FlatFrom(_, _, _, _)
\* The 0-based row-major position in a tensor of shape p of the entry that
\* entry k of the broadcast shape reads (an axis of length 1 is repeated).
FlatFrom(p, shape, k, a) ==
    IF a > Len(p) THEN 0
    ELSE (IF p[a] = 1 THEN 0 ELSE AxisIndex(shape, k, a))
             * Prod(SubSeq(p, a + 1, Len(p)))
         + FlatFrom(p, shape, k, a + 1)

\* t.broadcast_to(shape)
BroadcastTo(t, shape) ==
    LET p == PadLeft(t.shape, Len(shape))
    IN  Tensor(shape,
               [i \in 1..Prod(shape) |-> t.data[FlatFrom(p, shape, i - 1, 1) + 1]])

\* The broadcasting elementwise operators of the tensor engine
\* (F.broadcast_minus, F.broadcast_div, and the NDArray operators).
Broadcast2(op, a, b) ==
    IF IsError(a) THEN a
    ELSE IF IsError(b) THEN b
    ELSE IF ~BroadcastOk(a.shape, b.shape) THEN Raised("MXNetError")
    ELSE LET s  == BroadcastShape(a.shape, b.shape)
             aa == BroadcastTo(a, s)
             bb == BroadcastTo(b, s)
         IN  Tensor(s, [i \in 1..Prod(s) |-> op[aa.data[i], bb.data[i]]])

\* An elementwise function of one tensor.
Map1(op, a) ==
    IF IsError(a) THEN a
    ELSE Tensor(a.shape, [i \in 1..Len(a.data) |-> op[a.data[i]]])

RECURSIVE SumRange(_, _, _)
SumRange(d, lo, hi) == IF lo > hi THEN 0 ELSE d[lo] + SumRange(d, lo + 1, hi)

\* t.sum(axis=-1); the engine has no tensor without axes, and the sum of a
\* one-axis tensor has shape (1,).
SumLastAxis(t) ==
    IF IsError(t) THEN t
    ELSE LET w == Last(t.shape)
             s == AllButLast(t.shape)
         IN  Tensor(IF s = <<>> THEN <<1>> ELSE s,
                    [j \in 1..Prod(s) |-> SumRange(t.data, (j - 1) * w + 1, j * w)])

\* t.sum(axis=-1, keepdims=True)
SumLastAxisKeep(t) ==
    IF IsError(t) THEN t
    ELSE Tensor(Append(AllButLast(t.shape), 1), SumLastAxis(t).data)

\* t.squeeze(axis=-1)
Squeeze(t) ==
    IF IsError(t) THEN t
    ELSE IF Last(t.shape) # 1 THEN Raised("MXNetError")
    ELSE IF Len(t.shape) = 1 THEN t
    ELSE Tensor(AllButLast(t.shape), t.data)

\* F.concat(a, b, dim=-1)
Concat(a, b) ==
    IF IsError(a) THEN a
    ELSE IF IsError(b) THEN b
    ELSE IF AllButLast(a.shape) # AllButLast(b.shape) THEN Raised("MXNetError")
    ELSE LET wa == Last(a.shape)
             wb == Last(b.shape)
             w  == wa + wb
             s  == Append(AllButLast(a.shape), w)
         IN  Tensor(s,
                    [i \in 1..Prod(s) |->
                        LET row == (i - 1) \div w
                            col == (i - 1) % w
                        IN  IF col < wa THEN a.data[row * wa + col + 1]
                            ELSE b.data[row * wb + (col - wa) + 1]])

\* F.eye(n)
Eye(n) == Tensor(<<n, n>>,
                 [i \in 1..(n * n) |-> IF (i - 1) \div n = (i - 1) % n THEN Scale ELSE 0])

\* t.expand_dims(axis=0).repeat(axis=0, repeats=k)
_expand_param(t, k) ==
    IF k = None THEN t
    ELSE Tensor(<<k.v>> \o t.shape,
                [i \in 1..(k.v * Len(t.data)) |-> t.data[((i - 1) % Len(t.data)) + 1]])

(* ------------------------------------------- numeric library functions *)

\* 0.5 * math.log(2 * math.pi)
HalfLog2Pi == 919

\* math.sqrt(2.0)
Sqrt2 == 1414

\* The natural logarithm at the standard deviations the model constructs
\* distributions with, rounded to the unit.
LnTable == { <<500, -693>>, <<1000, 0>>, <<2000, 693>> }

Ln(v) == (CHOOSE p \in LnTable : p[1] = v)[2]

\* erf at 0.25, 0.5, ..., 3.0, rounded to the unit.
ErfTable == <<276, 520, 711, 843, 923, 966, 987, 995, 999, 1000, 1000, 1000>>

ErfStep == Scale \div 4

ErfAt(i) == IF i = 0 THEN 0 ELSE IF i > Len(ErfTable) THEN Scale ELSE ErfTable[i]

\* gluonts.support.erf.erf on one entry: odd, erf(0) = 0, read off the
\* table with linear interpolation between its points.
erf(u) ==
    LET a  == Abs(u)
        i  == a \div ErfStep
        lo == ErfAt(i)
        hi == ErfAt(i + 1)
        v  == lo + RDiv((hi - lo) * (a - i * ErfStep), ErfStep)
    IN  IF u >= 0 THEN v ELSE -v

\* F.sample_normal(mu, sigma) with tensor parameters: one draw per entry,
\* mu + sigma * z; the parameters must have the same shape.  z is the
\* standard normal noise of the call.
sample_normal(mu, sigma, z) ==
    IF mu.shape # sigma.shape THEN Raised("MXNetError")
    ELSE Tensor(mu.shape,
                [i \in 1..Len(mu.data) |-> mu.data[i] + FMul(sigma.data[i], z)])

(* --------------------------------- MultivariateIndependentGaussian class *)

\* The elementwise operators -, + and * of two tensors.
Sub(a, b) == Broadcast2([p \in Int, q \in Int |-> p - q], a, b)

Add(a, b) == Broadcast2([p \in Int, q \in Int |-> p + q], a, b)

Mul(a, b) == Broadcast2([p \in Int, q \in Int |-> FMul(p, q)], a, b)

\* MultivariateIndependentGaussian.__init__
MultivariateIndependentGaussian(mu, sigma, dim) ==
    [kind |-> "MultivariateIndependentGaussian", mu |-> mu, sigma |-> sigma, dim |-> dim]

batch_shape(self) == Returns(self, [kind |-> "shape", items |-> self.mu.shape])

event_shape(self) == Returns(self, [kind |-> "shape", items |-> AllButLast(self.mu.shape)])

event_dim(self) == Returns(self, PyInt(1))

LogProbTerm(d, s) == HalfLog2Pi + RDiv(FMul(FDiv(d, s), FDiv(d, s)), 2)

log_prob(self, x) ==
    LET mu    == self.mu
        sigma == self.sigma
        quad  == Broadcast2([p \in Int, q \in Int |-> LogProbTerm(p, q)],
                            Sub(x, mu), sigma)
        terms == Add(Map1([v \in Int |-> Ln(v)], sigma), quad)
        total == SumLastAxis(terms)
    IN  Returns(self, Map1([v \in Int |-> -v], total))

mean(self) == Returns(self, self.mu)

stddev(self) ==
    Returns(self,
            IF self.dim = None THEN Raised("TypeError")
            ELSE Mul(self.sigma, Eye(self.dim.v)))

CdfU(d, s) == FDiv(d, FMul(s, Sqrt2))

CdfOut(u) == RDiv(erf(u) + Scale, 2)

\* cdf with the operands of the subtraction exchanged.
cdf_exchanged(self, x) ==
    LET u == Broadcast2([p \in Int, q \in Int |-> CdfU(p, q)],
                        Sub(self.mu, x), self.sigma)
    IN  Returns(self, Map1([v \in Int |-> CdfOut(v)], u))

cdf(self, x) ==
    LET u == Broadcast2([p \in Int, q \in Int |-> CdfU(p, q)],
                        Sub(x, self.mu), self.sigma)
    IN  Returns(self, Map1([v \in Int |-> CdfOut(v)], u))

\* _sample_multiple(sample_func, mu=, sigma=, num_samples=) with
\* sample_func = F.sample_normal
sample(self, num_samples, z) ==
    Returns(self,
            sample_normal(_expand_param(self.mu, num_samples),
                          _expand_param(self.sigma, num_samples), z))

\* The inner function s of sample_rep.
sample_rep_s(mu, sigma, z) ==
    LET raw_samples == sample_normal(Full(mu.shape, 0), Full(sigma.shape, Scale), z)
    IN  Add(Mul(sigma, raw_samples), mu)

\* sample_rep keeping the expanded parameters on the instance.
sample_rep_storing(self, num_samples, z) ==
    Returns([self EXCEPT !.mu = _expand_param(self.mu, num_samples),
                         !.sigma = _expand_param(self.sigma, num_samples)],
            sample_rep_s(_expand_param(self.mu, num_samples),
                         _expand_param(self.sigma, num_samples), z))

sample_rep(self, num_samples, z) ==
    Returns(self,
            sample_rep_s(_expand_param(self.mu, num_samples),
                         _expand_param(self.sigma, num_samples), z))

(* ------------------------------------------------- activation functions *)

\* The largest raw value: 1e6.
Extreme == 10 ^ 6 * Scale

\* math.log1p(math.exp(z)) rounded to the unit, at the pre-activations the
\* model feeds it.
SoftreluTable ==
    { <<-2259, 99>>, <<-1259, 250>>, <<-1000, 313>>, <<-459, 490>>, <<-259, 572>>,
      <<0, 693>>, <<541, 1000>>, <<1000, 1313>>, <<1541, 1735>> }

\* F.Activation(z, act_type='softrelu') on one entry, in floating point:
\* z itself above 20, and log1p(exp(z)) below, where exp(z) is 0 for
\* z under -104.
softrelu(z) ==
    IF z > 20 * Scale THEN z
    ELSE IF z < -104 * Scale THEN 0
    ELSE (CHOOSE p \in SoftreluTable : p[1] = z)[2]

\* distribution.softplus(F, x)
softplus(x) == Map1([v \in Int |-> softrelu(v)], x)

\* log(exp(y) - 1) rounded to the unit, at the squares of the sigma_init
\* the model configures.
InvSoftplusTable == { <<250, -1259>>, <<1000, 541>> }

inv_softplus(y) == (CHOOSE p \in InvSoftplusTable : p[1] = y)[2]

\* lowrank_multivariate_gaussian.sigma_minimum: 1e-3
sigma_minimum == 1

(* ------------------------------------------------------ GPArgProj class *)

\* make(name, param_dim) of GPArgProj.__init__: a HybridSequential of a
\* Dense(param_dim, flatten=False) and, with dropout_rate > 0, a Dropout.
\* in_units = 0 is the input width not inferred yet.
make(name, param_dim, dropout_rate) ==
    [prefix   |-> name,
     layers   |-> IF dropout_rate > 0 THEN <<"Dense", "Dropout">> ELSE <<"Dense">>,
     units    |-> param_dim,
     in_units |-> 0,
     rate     |-> dropout_rate]

\* GPArgProj.__init__
GPArgProj(rank, sigma_init, sigma_min, mu_ratio, dropout_rate) ==
    [kind           |-> "GPArgProj",
     param_dim_args |-> << <<"mu", 1>>, <<"sigma", 1>>, <<"w", rank>> >>,
     mu_ratio       |-> mu_ratio,
     sigma_init     |-> sigma_init,
     sigma_minimum  |-> sigma_min,
     W_ratio        |-> Scale,
     rank           |-> rank,
     proj           |-> << make("mu", 1, dropout_rate),
                           make("sigma", 1, dropout_rate),
                           make("w", rank, dropout_rate) >>]

\* One forward pass of a projection net on x: the Dense layer infers its
\* input width on its first pass and maps (..., in_units) to (..., units);
\* its weights are whatever training made them, so that every entry of the
\* output is the value v drawn for the call.
Forward(net, x, v) ==
    IF IsError(x) THEN [net |-> net, val |-> x]
    ELSE IF net.units < 1 \/ (net.in_units # 0 /\ net.in_units # Last(x.shape))
         THEN [net |-> net, val |-> Raised("MXNetError")]
    ELSE [net |-> [net EXCEPT !.in_units = Last(x.shape)],
          val |-> Full(Append(AllButLast(x.shape), net.units), v)]

Square(v) == FMul(v, v)

\* x_plus_w without the feature appended.
x_plus_w_without_norm(x, W_matrix) == x

\* x_plus_w of hybrid_forward: x with the row-wise squared norm of W
\* appended on the last axis.
x_plus_w(x, W_matrix) == Concat(x, SumLastAxisKeep(Map1([v \in Int |-> Square(v)], W_matrix)))

\* d_bias left at 0 whatever sigma_init is.
d_bias_zero(self) == 0

d_bias(self) ==
    IF self.sigma_init = 0 THEN 0 ELSE inv_softplus(Square(self.sigma_init))

PyTuple(items) == [kind |-> "tuple", items |-> items]

\* GPArgProj.hybrid_forward; draw holds the outputs of the three nets.
hybrid_forward(self, x, draw) ==
    LET p0        == Forward(self.proj[1], x, draw.mu)
        mu_vector == Squeeze(p0.val)
        mu        == Map1([v \in Int |-> FMul(v, self.mu_ratio)], mu_vector)
        p2        == Forward(self.proj[3], x, draw.W)
        W_matrix  == Map1([v \in Int |-> FMul(v, self.W_ratio)], p2.val)
        p1        == Forward(self.proj[2], x_plus_w(x, W_matrix), draw.D)
        D_vector  == Squeeze(p1.val)
        D_positive ==
            Map1([v \in Int |-> softrelu(v + d_bias(self)) + self.sigma_minimum], D_vector)
        after     == [self EXCEPT !.proj =
                         << p0.net,
                            IF IsError(mu) \/ IsError(W_matrix) THEN self.proj[2] ELSE p1.net,
                            IF IsError(mu) THEN self.proj[3] ELSE p2.net >>]
    IN  Returns(after,
                IF IsError(mu) THEN mu
                ELSE IF IsError(W_matrix) THEN W_matrix
                ELSE IF IsError(D_positive) THEN D_positive
                ELSE PyTuple(<<mu, D_positive, W_matrix>>))

(* ------------------------------------------------ LowrankGPOutput class *)

\* LowrankGPOutput.__init__
LowrankGPOutput(rank, dim, sigma_init, mu_ratio, dropout_rate) ==
    [kind         |-> "LowrankGPOutput",
     dist_cls     |-> "LowrankMultivariateGaussian",
     dim          |-> dim,
     rank         |-> rank,
     args_dim     |-> [mu |-> 1, sigma |-> 1, w |-> rank],
     mu_bias      |-> 0,
     sigma_init   |-> sigma_init,
     mu_ratio     |-> mu_ratio,
     dropout_rate |-> dropout_rate]

get_args_proj(self) ==
    Returns(self,
            GPArgProj(self.rank, self.sigma_init, sigma_minimum, self.mu_ratio,
                      self.dropout_rate))

\* LowrankMultivariateGaussian(rank, mu, D, W, dim): the shapes of mu, D and
\* W must agree with each other, with rank and with a given dim.
LowrankMultivariateGaussian(rank, mu, D, W, dim) ==
    IF \/ D.shape # mu.shape
       \/ W.shape # Append(mu.shape, rank)
       \/ (dim # None /\ dim.v # Last(mu.shape))
    THEN Raised("ShapeError")
    ELSE [kind |-> "LowrankMultivariateGaussian",
          rank |-> rank, mu |-> mu, D |-> D, W |-> W, dim |-> dim]

\* bijection.AffineTransformation(scale=scale)
AffineTransformation(scale) == [kind |-> "AffineTransformation", loc |-> None, scale |-> scale]

\* TransformedDistribution(base_distribution, *transforms)
TransformedDistribution(base, transforms) ==
    [kind |-> "TransformedDistribution", base_distribution |-> base, transforms |-> transforms]

\* distribution returning the base distribution whatever the scale.
distribution_unscaled(self, distr_args, scale, dim) ==
    Returns(self,
            LowrankMultivariateGaussian(self.rank, distr_args[1], distr_args[2],
                                        distr_args[3], dim))

\* LowrankGPOutput.distribution
distribution(self, distr_args, scale, dim) ==
    LET d == LowrankMultivariateGaussian(self.rank, distr_args[1], distr_args[2],
                                         distr_args[3], dim)
    IN  Returns(self,
                IF IsError(d) THEN d
                ELSE IF scale = None THEN d
                ELSE TransformedDistribution(d, <<AffineTransformation(scale)>>))

LowrankGPOutput_event_shape(self) == Returns(self, PyTuple(<<self.dim>>))

LowrankGPOutput_event_dim(self) == Returns(self, PyInt(1))

(* ---------------------------- MultivariateIndependentGaussianOutput class *)

\* MultivariateIndependentGaussianOutput.__init__
MultivariateIndependentGaussianOutput(dim) ==
    [kind      |-> "MultivariateIndependentGaussianOutput",
     args_dim  |-> [mu |-> dim, sigma |-> dim],
     distr_cls |-> "MultivariateIndependentGaussian",
     dim       |-> dim]

\* MultivariateIndependentGaussianOutput.domain_map (a classmethod)
domain_map(mu, sigma) == PyTuple(<<mu, softplus(sigma)>>)

MultivariateIndependentGaussianOutput_event_shape(self) ==
    Returns(self, PyTuple(<<self.dim>>))

\* DistributionOutput.event_dim, which the class inherits: the length of
\* event_shape.
DistributionOutput_event_dim(self) ==
    Returns(self, PyInt(Len(MultivariateIndependentGaussianOutput_event_shape(self).val.items)))

(* ----------------------------------------------------------- the inputs *)

\* The axis lengths: 1 is the length that broadcasts, 2 one that does not.
AxisLens == {1, 2}

Shapes == UNION { Tuples(n, AxisLens) : n \in 1..MaxAxes }

\* The tensors of every shape with all entries v.
FullTensors(v) == { Full(s, v) : s \in Shapes }

\* The one-axis tensors with entries in V.
Vectors(V) == UNION { { Tensor(<<n>>, d) : d \in Tuples(n, V) } : n \in 1..MaxEventDim }

\* Optional[int] arguments.
OptionalDims == {None} \cup { PyInt(d) : d \in AxisLens }

NumSamples == {None} \cup { PyInt(k) : k \in 1..MaxSamples }

\* The standard normal draws of one call.
Noise == {-Scale, Scale}

\* The observations passed to a distribution: one per batch entry, or one
\* event broadcast over the batch.
Observations(self) ==
    { Full(self.mu.shape, Scale), Full(<<Last(self.mu.shape)>>, Scale) }

(* ------------------------------ calls on MultivariateIndependentGaussian *)

\* Nothing has been called yet.
NoCall == [op |-> "none"]

Init ==
    /\ dist = None
    /\ ctor = None
    /\ out = None
    /\ proj = None
    /\ ret = NoCall

\* dist = MultivariateIndependentGaussian(mu, sigma, dim)
Construct(Mus, Sigmas, Dims) ==
    \E mu \in Mus, sigma \in Sigmas, dim \in Dims :
        /\ dist = None
        /\ dist' = MultivariateIndependentGaussian(mu, sigma, dim)
        /\ ctor' = [mu |-> mu, sigma |-> sigma, dim |-> dim]
        /\ ret' = [op |-> "__init__", val |-> dist']
        /\ UNCHANGED <<out, proj>>

\* A call of a method or property of the instance: r is what it leaves.
Called(op, args, r) ==
    /\ dist' = r.self
    /\ ret' = [op |-> op, args |-> args, val |-> r.val]
    /\ UNCHANGED <<ctor, out, proj>>

Call_batch_shape == dist # None /\ Called("batch_shape", <<>>, batch_shape(dist))

Call_event_shape == dist # None /\ Called("event_shape", <<>>, event_shape(dist))

Call_event_dim == dist # None /\ Called("event_dim", <<>>, event_dim(dist))

Call_mean == dist # None /\ Called("mean", <<>>, mean(dist))

Call_stddev == dist # None /\ Called("stddev", <<>>, stddev(dist))

Call_log_prob(Xs) ==
    dist # None /\ \E x \in Xs : Called("log_prob", <<x>>, log_prob(dist, x))

Call_cdf(Xs) ==
    dist # None /\ \E x \in Xs : Called("cdf", <<x>>, cdf(dist, x))

Call_sample ==
    dist # None /\ \E k \in NumSamples, z \in Noise :
        Called("sample", <<k>>, sample(dist, k, z))

Call_sample_rep ==
    dist # None /\ \E k \in NumSamples, z \in Noise :
        Called("sample_rep", <<k>>, sample_rep(dist, k, z))

\* The distribution with parameter tensors of every shape.
Next ==
    \/ Construct(FullTensors(0), FullTensors(Scale), OptionalDims)
    \/ Call_batch_shape
    \/ Call_event_shape
    \/ Call_event_dim
    \/ Call_mean
    \/ Call_stddev
    \/ Call_log_prob(Observations(dist))
    \/ Call_cdf(Observations(dist))
    \/ Call_sample
    \/ Call_sample_rep

Spec == Init /\ [][Next]_vars

\* The distribution over one event axis with parameters whose entries vary.
MuValues == {0, Scale}

SigmaValues == {Scale \div 2, 2 * Scale}

XValues == {-Scale, 0, Scale}

NextCdf ==
    \/ Construct(Vectors(MuValues), Vectors(SigmaValues), {None})
    \/ Call_mean
    \/ Call_cdf(Vectors(XValues))

SpecCdf == Init /\ [][NextCdf]_vars

(* ------------------------------------- calls on the adapters and GPArgProj *)

\* The largest rank configured.
MaxRank == 2

Ranks == 0..MaxRank

SigmaInits == {0, Scale \div 2, Scale}

SigmaMinimums == {-1, 0, sigma_minimum}

MuRatios == {Scale}

DropoutRates == {0, Scale}

\* The raw outputs of a projection net.
RawValues == {-Extreme, -Scale, 0, Scale, Extreme}

\* The hidden features x of shape (..., dim, hidden_dim).
Features == { Full(s, Scale) : s \in { t \in Shapes : Len(t) >= 2 } }

\* The outputs of the three nets in one forward pass.
Draws == [mu : {Scale}, D : RawValues, W : {Scale}]

\* The other length of an event axis.
Flip(s) == Append(AllButLast(s), 3 - Last(s))

\* The (mu, D, W) passed to distribution: D of the shape of mu or of
\* another event width, W of the adapter's rank or of the next.
DistrArgs(self) ==
    UNION { { <<Full(s, 0), Full(s, Scale), Full(Append(s, self.rank), Scale)>>,
              <<Full(s, 0), Full(Flip(s), Scale), Full(Append(s, self.rank), Scale)>>,
              <<Full(s, 0), Full(s, Scale), Full(Append(s, self.rank + 1), Scale)>> } :
            s \in Shapes }

\* The dim passed to distribution.
DistrDims == {None, PyInt(2)}

Scales == {None, Full(<<1>>, 2 * Scale)}

New(op, args, obj) ==
    /\ out = None
    /\ proj = None
    /\ dist = None
    /\ ret' = [op |-> op, args |-> args, val |-> obj]
    /\ UNCHANGED <<dist, ctor>>

New_LowrankGPOutput ==
    \E rank \in Ranks, dim \in OptionalDims, sigma_init \in {0, Scale},
       mu_ratio \in MuRatios, dropout_rate \in DropoutRates :
        /\ New("LowrankGPOutput", <<rank, dim, sigma_init, mu_ratio, dropout_rate>>,
               LowrankGPOutput(rank, dim, sigma_init, mu_ratio, dropout_rate))
        /\ out' = LowrankGPOutput(rank, dim, sigma_init, mu_ratio, dropout_rate)
        /\ UNCHANGED proj

New_MultivariateIndependentGaussianOutput ==
    \E dim \in AxisLens :
        /\ New("MultivariateIndependentGaussianOutput", <<dim>>,
               MultivariateIndependentGaussianOutput(dim))
        /\ out' = MultivariateIndependentGaussianOutput(dim)
        /\ UNCHANGED proj

New_GPArgProj ==
    \E rank \in Ranks, sigma_init \in SigmaInits, sigma_min \in SigmaMinimums,
       mu_ratio \in MuRatios, dropout_rate \in DropoutRates :
        /\ New("GPArgProj", <<rank, sigma_init, sigma_min, mu_ratio, dropout_rate>>,
               GPArgProj(rank, sigma_init, sigma_min, mu_ratio, dropout_rate))
        /\ proj' = GPArgProj(rank, sigma_init, sigma_min, mu_ratio, dropout_rate)
        /\ UNCHANGED out

\* A call on the adapter: r is what it leaves.
CalledOut(op, args, r) ==
    /\ out' = r.self
    /\ ret' = [op |-> op, args |-> args, val |-> r.val]
    /\ UNCHANGED <<dist, ctor>>

\* The adapter returns a new projector and keeps no reference to it; the
\* projectors it can return are among those of New_GPArgProj.
Call_get_args_proj ==
    /\ out.kind = "LowrankGPOutput"
    /\ CalledOut("get_args_proj", <<>>, get_args_proj(out))
    /\ UNCHANGED proj

Call_hybrid_forward ==
    /\ proj # None
    /\ \E x \in Features, draw \in Draws :
        /\ proj' = hybrid_forward(proj, x, draw).self
        /\ ret' = [op |-> "hybrid_forward", args |-> <<x, draw>>,
                   val |-> hybrid_forward(proj, x, draw).val]
    /\ UNCHANGED <<dist, ctor, out>>

Call_distribution ==
    /\ out.kind = "LowrankGPOutput"
    /\ \E distr_args \in DistrArgs(out), scale \in Scales, dim \in DistrDims :
        CalledOut("distribution", <<distr_args, scale, dim>>,
                  distribution(out, distr_args, scale, dim))
    /\ UNCHANGED proj

Call_LowrankGPOutput_event_shape ==
    /\ out.kind = "LowrankGPOutput"
    /\ CalledOut("event_shape", <<>>, LowrankGPOutput_event_shape(out))
    /\ UNCHANGED proj

Call_LowrankGPOutput_event_dim ==
    /\ out.kind = "LowrankGPOutput"
    /\ CalledOut("event_dim", <<>>, LowrankGPOutput_event_dim(out))
    /\ UNCHANGED proj

Call_domain_map ==
    /\ out.kind = "MultivariateIndependentGaussianOutput"
    /\ \E s \in Shapes, v \in RawValues :
        CalledOut("domain_map", <<Full(s, 0), Full(s, v)>>,
                  Returns(out, domain_map(Full(s, 0), Full(s, v))))
    /\ UNCHANGED proj

Call_MultivariateIndependentGaussianOutput_event_shape ==
    /\ out.kind = "MultivariateIndependentGaussianOutput"
    /\ CalledOut("event_shape", <<>>, MultivariateIndependentGaussianOutput_event_shape(out))
    /\ UNCHANGED proj

Call_MultivariateIndependentGaussianOutput_event_dim ==
    /\ out.kind = "MultivariateIndependentGaussianOutput"
    /\ CalledOut("event_dim", <<>>, DistributionOutput_event_dim(out))
    /\ UNCHANGED proj

\* The adapters and the projector.
NextOutput ==
    \/ New_LowrankGPOutput
    \/ New_MultivariateIndependentGaussianOutput
    \/ New_GPArgProj
    \/ Call_get_args_proj
    \/ Call_hybrid_forward
    \/ Call_distribution
    \/ Call_LowrankGPOutput_event_shape
    \/ Call_LowrankGPOutput_event_dim
    \/ Call_domain_map
    \/ Call_MultivariateIndependentGaussianOutput_event_shape
    \/ Call_MultivariateIndependentGaussianOutput_event_dim

SpecOutput == Init /\ [][NextOutput]_vars

(* --------------------------------------------------------- properties *)

\* The parameters were given with one shape, as the class documents.
SameShapeParams == dist # None /\ dist.mu.shape = dist.sigma.shape

\* C1: with mu and sigma of one shape (b1, ..., bn, dim), log_prob(x) has
\* the shape the batch_shape property reports, and sample(k) and
\* sample_rep(k), k >= 1, have the shape (k, *batch_shape, *event_shape)
\* of the instance's own properties.
C1_ShapesAgreeWithProperties ==
    (SameShapeParams /\ ret.op \in {"log_prob", "sample", "sample_rep"}) =>
        LET b == batch_shape(dist).val.items
            e == event_shape(dist).val.items
        IN  /\ (ret.op = "log_prob" /\ ret.args[1].shape = dist.mu.shape) =>
                   (~IsError(ret.val) /\ ret.val.shape = b)
            /\ (ret.op \in {"sample", "sample_rep"} /\ ret.args[1] # None) =>
                   (~IsError(ret.val) /\ ret.val.shape = <<ret.args[1].v>> \o b \o e)

\* The declared dim disagrees with the width of the event axis.
DimDisagrees(dim, mu) == dim # None /\ dim.v # Last(mu.shape)

\* C4: a construction from parameter tensors whose shapes disagree, or whose
\* event width disagrees with the declared dim, raises and yields no
\* distribution: MultivariateIndependentGaussian(mu, sigma, dim), and the
\* low-rank distribution of LowrankGPOutput.distribution.
C4_ShapeErrorAtConstruction ==
    /\ (ret.op = "__init__"
          /\ (ctor.mu.shape # ctor.sigma.shape \/ DimDisagrees(ctor.dim, ctor.mu)))
       => IsError(ret.val)
    /\ (ret.op = "distribution"
          /\ (\/ ret.args[1].mu.shape # ret.args[1].D.shape
              \/ ret.args[1].W.shape # Append(ret.args[1].mu.shape, out.rank)
              \/ DimDisagrees(out.dim, ret.args[1].mu)
              \/ DimDisagrees(ret.args[3], ret.args[1].mu)))
       => IsError(ret.val)

\* C6: after any calls of its methods and properties the instance holds the
\* mu, sigma and dim it was constructed with, and mean returns that mu.
C6_ReadOnly ==
    dist # None =>
        /\ dist.mu = ctor.mu
        /\ dist.sigma = ctor.sigma
        /\ dist.dim = ctor.dim
        /\ ret.op = "mean" => ret.val = ctor.mu

C6_Witness ==
    /\ dist # None
    /\ ret.op = "sample_rep"
    /\ ret.args[1] # None
    /\ ~IsError(ret.val)
    /\ dist.mu = ctor.mu

\* x <= y in every coordinate.
LeqAll(x, y) == \A i \in 1..Len(x) : x[i] <= y[i]

ValidHyperparameters(rank, sigma_min, dropout_rate) ==
    /\ rank >= 1
    /\ sigma_min >= 0
    /\ dropout_rate >= 0
    /\ dropout_rate < Scale

\* C2: for valid hyperparameters and every raw value, the diagonal D of
\* GPArgProj.hybrid_forward is greater than sigma_minimum in every entry, and
\* the sigma of MultivariateIndependentGaussianOutput.domain_map is greater
\* than 0 in every entry.
C2_Positivity ==
    /\ (/\ ret.op = "hybrid_forward"
        /\ ValidHyperparameters(proj.rank, proj.sigma_minimum, proj.proj[1].rate)
        /\ ~IsError(ret.val))
       => \A i \in 1..Len(ret.val.items[2].data) :
              ret.val.items[2].data[i] > proj.sigma_minimum
    /\ ret.op = "domain_map"
       => \A i \in 1..Len(ret.val.items[2].data) : ret.val.items[2].data[i] > 0

\* C3: constructing the projector with rank < 1, dropout_rate outside [0, 1)
\* or a negative sigma_minimum, directly or through
\* LowrankGPOutput.get_args_proj, raises and produces no projector.
C3_ConfigurationErrorAtConstruction ==
    /\ (ret.op = "GPArgProj"
          /\ ~ValidHyperparameters(ret.args[1], ret.args[3], ret.args[5]))
       => (IsError(ret.val) /\ proj = None)
    /\ (ret.op = "get_args_proj"
          /\ ~ValidHyperparameters(out.rank, sigma_minimum, out.dropout_rate))
       => IsError(ret.val)

\* C5: LowrankGPOutput.distribution returns, for scale None, the low-rank
\* Gaussian of the adapter's rank and the given (mu, D, W), and otherwise
\* that distribution under exactly one affine transformation of the given
\* scale.
C5_Distribution ==
    (ret.op = "distribution" /\ ~IsError(ret.val)) =>
        LET distr_args == ret.args[1]
            scale      == ret.args[2]
            base       == IF scale = None THEN ret.val ELSE ret.val.base_distribution
        IN  /\ scale = None => ret.val.kind = "LowrankMultivariateGaussian"
            /\ scale # None =>
                   /\ ret.val.kind = "TransformedDistribution"
                   /\ Len(ret.val.transforms) = 1
                   /\ ret.val.transforms[1].kind = "AffineTransformation"
                   /\ ret.val.transforms[1].scale = scale
            /\ base.kind = "LowrankMultivariateGaussian"
            /\ base.rank = out.rank
            /\ <<base.mu, base.D, base.W>> = distr_args

C5_Witness ==
    /\ ret.op = "distribution"
    /\ ret.args[2] # None
    /\ ret.val.kind = "TransformedDistribution"
    /\ ret.val.base_distribution.rank = out.rank

\* C8: on every adapter (of a valid rank and dropout_rate) event_shape is a
\* 1-tuple holding the integer event dimension, and event_dim is 1.
C8_EventShape ==
    /\ (/\ ret.op = "event_shape"
        /\ out.kind = "LowrankGPOutput" =>
               ValidHyperparameters(out.rank, sigma_minimum, out.dropout_rate)) =>
           /\ ret.val.kind = "tuple"
           /\ Len(ret.val.items) = 1
           /\ ret.val.items[1].kind = "int"
           /\ ret.val.items[1].v >= 1
    /\ ret.op = "event_dim" => ret.val = PyInt(1)

\* The call of hybrid_forward returned, and its D projection output the
\* raw value v.
ForwardReturned(v) ==
    /\ ret.op = "hybrid_forward"
    /\ ~IsError(ret.val)
    /\ ret.args[2].D = v

\* C9 as stated, for valid hyperparameters: D = softplus(D_raw + bias) +
\* sigma_minimum with the bias of sigma_init, and with D_raw = 0 and
\* sigma_init # 0 the square root of D is sigma_init.
C9_InitialStddevIsSigmaInit ==
    \A v \in RawValues :
        (/\ ForwardReturned(v)
         /\ ValidHyperparameters(proj.rank, proj.sigma_minimum, proj.proj[1].rate)) =>
            \A i \in 1..Len(ret.val.items[2].data) :
                LET D == ret.val.items[2].data[i]
                IN  /\ D = softrelu(v + (IF proj.sigma_init = 0 THEN 0
                                         ELSE inv_softplus(Square(proj.sigma_init))))
                           + proj.sigma_minimum
                    /\ (v = 0 /\ proj.sigma_init # 0) => D = Square(proj.sigma_init)

\* C9 amended: the same D, and with D_raw = 0 and sigma_init # 0 it is
\* sigma_init squared plus sigma_minimum.
C9_InitialVarianceIsOffset ==
    \A v \in RawValues :
        ForwardReturned(v) =>
            \A i \in 1..Len(ret.val.items[2].data) :
                LET D == ret.val.items[2].data[i]
                IN  /\ D = softrelu(v + (IF proj.sigma_init = 0 THEN 0
                                         ELSE inv_softplus(Square(proj.sigma_init))))
                           + proj.sigma_minimum
                    /\ (v = 0 /\ proj.sigma_init # 0) =>
                           D = Square(proj.sigma_init) + proj.sigma_minimum

C9_Witness ==
    /\ ForwardReturned(0)
    /\ proj.sigma_init = Scale
    /\ proj.sigma_minimum = sigma_minimum
    /\ ret.val.items[2].data[1] = Scale + sigma_minimum

\* C10 as stated: for x of shape (..., hidden_dim), mu has shape (..., dim):
\* the leading axes of x followed by one event axis, so mu has as many axes
\* as x and the same leading axes.
C10_LeadingAxesOfXKept ==
    (/\ ret.op = "hybrid_forward"
     /\ ValidHyperparameters(proj.rank, proj.sigma_minimum, proj.proj[1].rate)
     /\ ~IsError(ret.val)) =>
        /\ Len(ret.val.items[1].shape) = Len(ret.args[1].shape)
        /\ AllButLast(ret.val.items[1].shape) = AllButLast(ret.args[1].shape)

\* C10: for x of shape (..., dim, hidden_dim) and rank >= 1, hybrid_forward
\* returns (mu, D, W); mu and D have the shape of x without its last axis, W
\* that shape with an axis of length rank appended, and the D projection is
\* fed x with one feature appended, the row-wise squared norm of W.
C10_ForwardShapes ==
    ret.op = "hybrid_forward" =>
        LET x      == ret.args[1]
            hidden == Last(x.shape)
            rows   == AllButLast(x.shape)
        IN  /\ (proj.rank >= 1 /\ proj.proj[1].in_units = hidden) => ~IsError(ret.val)
            /\ ~IsError(ret.val) =>
                   LET mu  == ret.val.items[1]
                       D   == ret.val.items[2]
                       W   == ret.val.items[3]
                       fed == x_plus_w(x, W)
                   IN  /\ Len(ret.val.items) = 3
                       /\ mu.shape = rows
                       /\ D.shape = mu.shape
                       /\ W.shape = Append(mu.shape, proj.rank)
                       /\ proj.proj[2].in_units = hidden + 1
                       /\ fed.shape = Append(rows, hidden + 1)
                       /\ \A r \in 1..Prod(rows) :
                              /\ \A c \in 1..hidden :
                                     fed.data[(r - 1) * (hidden + 1) + c]
                                         = x.data[(r - 1) * hidden + c]
                              /\ fed.data[r * (hidden + 1)]
                                     = SumRange([k \in 1..Len(W.data) |-> Square(W.data[k])],
                                                (r - 1) * proj.rank + 1, r * proj.rank)

C10_Witness ==
    /\ ret.op = "hybrid_forward"
    /\ ~IsError(ret.val)
    /\ proj.rank = 2
    /\ ret.args[1].shape = <<2, 2>>
    /\ ret.val.items[3].shape = <<2, 2>>
    /\ proj.proj[2].in_units = 3

====
